---- MODULE Spec2Model ----
(***************************************************************************)
(* Model of brlcad/install/post_install.py: the post-install step that     *)
(* generates the BRL-CAD ctypes bindings.  One behaviour is a sequence of  *)
(* calls of main(library_path) on one file system; each call is unrolled   *)
(* into the statements of main in program order (pc).                      *)
(*                                                                         *)
(* A directory is a record [exists, files]; files is a set of pairs        *)
(* <<file name, content>> with at most one pair per file name.             *)
(***************************************************************************)
EXTENDS Naturals, Sequences, FiniteSets

(* ------------------------------ bounds --------------------------------- *)

\* Largest number of libraries a configuration lists.
MaxLibs == 3

\* Largest length of a library's dependency list (ctypesgen_options.modules).
MaxDeps == 2

\* Number of calls of main in one behaviour.
MaxRuns == 2

(* --------------------------- configuration ----------------------------- *)

NamePool == <<"a", "b", "c", "d", "e">>

LibNames == {NamePool[i] : i \in 1..MaxLibs}

RECURSIVE SeqsUpTo(_, _)
SeqsUpTo(S, n) ==
    IF n = 0 THEN {<<>>}
    ELSE LET shorter == SeqsUpTo(S, n - 1)
         IN  shorter \cup {Append(s, x) : s \in shorter, x \in S}

Distinct(s) == \A i, j \in 1..Len(s) : i # j => s[i] # s[j]

\* The values of ctypesgen_options.modules the model enumerates.
ModuleLists == {s \in SeqsUpTo(LibNames, MaxDeps) : Distinct(s)}

\* brlcad_info["version"], the version string of the BRL-CAD installation.
BrlcadVersion == "7.24.0"

\* The libraries configured before position i.
Earlier(i) == {NamePool[k] : k \in 1..(i - 1)}

\* The lookup of the i-th library succeeds: every module it names is
\* generated before it.
Resolvable(modules, i) ==
    \A j \in 1..Len(modules) : modules[j] \in Earlier(i)

Option(i, modules) == [brlcad_lib_name |-> NamePool[i], modules |-> modules]

\* Option lists of length n in which every lookup succeeds.
RECURSIVE OrderedOptions(_)
OrderedOptions(n) ==
    IF n = 0 THEN {<<>>}
    ELSE {Append(o, Option(n, m)) :
            o \in OrderedOptions(n - 1),
            m \in {l \in ModuleLists : Resolvable(l, n)}}

\* Option lists of length n whose k-th library is the first with a failing
\* lookup.  The options after it are never read; they name no modules.
MisorderedOptions(n, k) ==
    {o \o <<Option(k, m)>> \o [i \in 1..(n - k) |-> Option(k + i, <<>>)] :
        o \in OrderedOptions(k - 1),
        m \in {l \in ModuleLists : ~Resolvable(l, k)}}

\* What load_ctypesgen_options returns: one options record per library, in
\* the order the configuration gives them.
OptionLists ==
    UNION {OrderedOptions(n) \cup UNION {MisorderedOptions(n, k) : k \in 1..n}
           : n \in 0..MaxLibs}

(* ----------------------------- file system ----------------------------- *)

\* library_path values: the installed package ("site") and the source
\* package itself ("pkg"), whose _bindings is the cached directory.
LibraryPaths == {"site", "pkg"}

\* os.path.join(library_path, "_bindings")
BindingsPath(lp) == IF lp = "pkg" THEN "pkg/_bindings" ELSE "site/_bindings"

\* os.path.join(os.path.dirname(__file__), "..", "_bindings")
CachedBindingsPath == "pkg/_bindings"

\* os.path.join(os.path.dirname(__file__), "_bindings")
LocalBindingsPath == "pkg/install/_bindings"

Paths == {"site/_bindings", "pkg/_bindings", "pkg/install/_bindings"}

AbsentDir == [exists |-> FALSE, files |-> {}]
EmptyDir  == [exists |-> TRUE, files |-> {}]

\* A directory left by an earlier installation of another version.
StaleDir  == [exists |-> TRUE, files |-> {<<<<"old", ".py">>, <<"stale">>>>}]

\* ctypesgen_options.output, as load_ctypesgen_options sets it.
WrapperFile(lib) == <<lib, ".py">>

InitFile == <<"__init__", ".py">>

\* The byte-code files imp.load_source writes next to the file it loads.
InitBytecodeFile == <<"__init__", ".pyc">>
WrapperBytecodeFile(lib) == <<lib, ".pyc">>

WriteFile(dir, name, content) ==
    [exists |-> TRUE,
     files  |-> {f \in dir.files : f[1] # name} \cup {<<name, content>>}]

HasFile(dir, name) == \E f \in dir.files : f[1] = name

FileNames(dir) == {f[1] : f \in dir.files}

ReadFile(dir, name) == (CHOOSE f \in dir.files : f[1] = name)[2]

(* ------------------------ external collaborators ----------------------- *)

\* A name is a pair <<owner, identifier>>; the owner is the library whose
\* wrapper defines it, or "" for an attribute every module has.

\* The attributes every loaded module has, as dir() lists them.
ModuleAttributes ==
    << <<"", "__builtins__">>, <<"", "__doc__">>, <<"", "__file__">>,
       <<"", "__name__">>, <<"", "__package__">> >>

\* The names the wrapper of lib defines itself.
OwnNames(lib) == << <<lib, "T">>, <<lib, "f">> >>

\* The wrapper source the generator prints for lib, given the names it was
\* told are already defined elsewhere; imports tells whether the wrapper
\* imports the names of its modules.
WrapperSource(lib, modules, known, imports) ==
    <<"wrapper", lib, modules, known, imports>>

\* What is left of the wrapper when printing it fails after the output file
\* was opened.
PartialSource(lib, modules, known, imports) ==
    <<"partial", lib, modules, known, imports>>

\* The names of known that "from module import *" brings into a wrapper.
Imported(source) ==
    IF source[5]
    THEN {source[4][i] : i \in {j \in 1..Len(source[4]) : source[4][j][1] # ""}}
    ELSE {}

\* The names of S owned by the libraries NamePool[i..], in dir()'s sorted
\* order.
RECURSIVE SortedFrom(_, _)
SortedFrom(S, i) ==
    IF i > Len(NamePool) THEN <<>>
    ELSE SelectSeq(OwnNames(NamePool[i]), LAMBDA n : n \in S)
             \o SortedFrom(S, i + 1)

\* dir(latest_module) for the module loaded from a wrapper source: the
\* module attributes, the names the wrapper defines and those it imports.
Dir(source) ==
    ModuleAttributes
        \o SortedFrom({OwnNames(source[2])[k] : k \in 1..Len(OwnNames(source[2]))}
                          \cup Imported(source), 1)

\* The byte-code file imp.load_source compiles from a source file.
Bytecode(source) == <<"bytecode", source>>

\* json.dumps of a list of strings.
JsonDumps(names) == [i \in 1..Len(names) |-> <<"str", names[i]>>]

\* json.loads, the inverse of JsonDumps.
JsonLoads(text) == [i \in 1..Len(text) |-> text[i][2]]

\* repr of a string.
Repr(str) == <<"'", str, "'">>

(* --------------------------- pure functions ---------------------------- *)

Contains(s, x) == \E i \in 1..Len(s) : s[i] = x

\* Mutant of InsertVersion: the version marker is appended, not prepended.
InsertVersionAtEnd(library_names) ==
    IF ~Contains(library_names, "BRLCAD_VERSION")
    THEN library_names \o <<"BRLCAD_VERSION">>
    ELSE library_names

\* Mutant of InsertVersion: the membership test is dropped.
InsertVersionAlways(library_names) == <<"BRLCAD_VERSION">> \o library_names

\* library_names after generate_init_file's in-place insert.
InsertVersion(library_names) ==
    IF ~Contains(library_names, "BRLCAD_VERSION")
    THEN <<"BRLCAD_VERSION">> \o library_names
    ELSE library_names

\* init_contents of generate_init_file.
InitContents(library_names, brlcad_version) ==
    <<"init", Repr(brlcad_version), JsonDumps(library_names)>>

\* The __all__ list a manifest file declares.
ExportList(content) == JsonLoads(content[3])

\* Mutant of ExtendKnownNames: each module's names are put in front.
RECURSIVE ExtendKnownNamesInFront(_, _, _)
ExtendKnownNamesInFront(known, modules, map) ==
    IF modules = <<>> \/ Head(modules) \notin DOMAIN map
    THEN known
    ELSE ExtendKnownNamesInFront(map[Head(modules)] \o known,
                                 Tail(modules), map)

\* The inner loop of main: other_known_names after extending it with
\* symbol_map[module] for each module, stopping at the first missing key.
RECURSIVE ExtendKnownNames(_, _, _)
ExtendKnownNames(known, modules, map) ==
    IF modules = <<>> \/ Head(modules) \notin DOMAIN map
    THEN known
    ELSE ExtendKnownNames(known \o map[Head(modules)], Tail(modules), map)

\* Mutant of StoreSymbols: the map is replaced by the new entry alone.
StoreSymbolsAlone(map, lib, names) == [m \in {lib} |-> names]

\* symbol_map after symbol_map[lib] = names.
StoreSymbols(map, lib, names) ==
    [m \in DOMAIN map \cup {lib} |-> IF m = lib THEN names ELSE map[m]]

\* Mutant of LookupFails: a missing key yields nothing instead of raising.
LookupNeverFails(modules, map) == FALSE

\* symbol_map[module] raises KeyError for some module of the list.
LookupFails(modules, map) ==
    \E i \in 1..Len(modules) : modules[i] \notin DOMAIN map

\* shutil.copytree(src, dst) raises when src is missing or dst exists.
CopytreeFails(disk, src, dst) == ~disk[src].exists \/ disk[dst].exists

Copytree(disk, src, dst) == [disk EXCEPT ![dst] = disk[src]]

\* Mutant of Rmtree: the directory is left in place.
RmtreeKeeps(disk, path) == disk

Rmtree(disk, path) == [disk EXCEPT ![path] = AbsentDir]

\* Mutant of MakeOrRemove: an existing directory is kept as it is.
MakeOrKeep(disk, path) ==
    IF ~disk[path].exists
    THEN [disk EXCEPT ![path] = EmptyDir]
    ELSE disk

\* What a shutil.rmtree that fails on permissions may leave: the directory as
\* it was, or emptied when only the directory itself cannot be removed.
RmtreeDenied(disk, path) ==
    {disk, [disk EXCEPT ![path] = [exists |-> @.exists, files |-> {}]]}

\* The try/except around os.makedirs(bindings_path) in cleanup_bindings_dir.
MakeOrRemove(disk, path) ==
    IF ~disk[path].exists
    THEN [disk EXCEPT ![path] = EmptyDir]
    ELSE Rmtree(disk, path)

(* ------------------------------- state --------------------------------- *)

VARIABLES
    fs,                  \* the directories: [Paths -> directory]
    library_path,        \* argument of main (the install target)
    ctypesgen_library_options,  \* what load_ctypesgen_options yields
    denied,              \* directories the process may neither make nor remove
    unreadable,          \* directories the process cannot even list
    unreadable_files,    \* directories holding files the process cannot read
    wrapper_imports,     \* the generator makes wrappers import their modules
    write_bytecode,      \* the interpreter writes byte-code files
    run,                 \* number of calls of main started so far
    pc,                  \* the statement of main about to execute
    err,                 \* the exception that ended the call, or "none"
    cache_bindings,      \* the cached-reinstall option read by this call
    idx,                 \* position of the for loop in the option list
    other_known_names,   \* ctypesgen_options.other_known_names
    symbol_map,          \* module name -> names the module defines
    generated_libraries, \* libraries generated by the for loop
    symbols,             \* dir(latest_module) of the current iteration
    loaded_manifest,     \* the manifest source the last load executed
    gen_calls,           \* history: libraries generate_wrapper was called for
    init_writes,         \* history: contents generate_init_file wrote
    fs0,                 \* history: the directories when this call started
    steps,               \* history: statements executed in this call
    prev                 \* history: how the previous call of main ended

conf == <<library_path, ctypesgen_library_options, wrapper_imports,
          write_bytecode>>
perms == <<denied, unreadable, unreadable_files>>
locals == <<cache_bindings, idx, other_known_names, symbol_map,
            generated_libraries, symbols, loaded_manifest>>
hist == <<gen_calls, init_writes, fs0>>
vars == <<fs, conf, perms, run, pc, err, locals, hist, steps, prev>>

bindings_path == BindingsPath(library_path)
cached_bindings_path == CachedBindingsPath

NoSymbols == [m \in {} |-> <<>>]

NoPrev == [status |-> "none", err |-> "none", cache_bindings |-> FALSE,
           regenerated |-> FALSE, bindings |-> AbsentDir,
           init_writes |-> <<>>]

\* The option record of the current loop iteration.
ctypesgen_options == ctypesgen_library_options[idx]
lib_name == ctypesgen_options.brlcad_lib_name

\* The state before the first call of main, whatever the permissions are.
Installed ==
    /\ library_path \in LibraryPaths
    /\ fs \in [Paths -> {AbsentDir, StaleDir}]
    /\ library_path = "pkg" => fs[BindingsPath("site")] = AbsentDir
    /\ ctypesgen_library_options \in OptionLists
    /\ wrapper_imports \in BOOLEAN
    /\ write_bytecode \in BOOLEAN
    /\ loaded_manifest = <<>>
    /\ run = 0
    /\ pc = "idle"
    /\ err = "none"
    /\ cache_bindings = FALSE
    /\ idx = 0
    /\ other_known_names = <<>>
    /\ symbol_map = NoSymbols
    /\ generated_libraries = <<>>
    /\ symbols = <<>>
    /\ gen_calls = <<>>
    /\ init_writes = <<>>
    /\ fs0 = fs
    /\ steps = <<>>
    /\ prev = NoPrev

\* The process has the permissions the installation needs.
Init ==
    /\ Installed
    /\ denied = {}
    /\ unreadable = {}
    /\ unreadable_files = {}

\* Some permission is missing: a directory can be neither made nor removed,
\* or files left by an earlier install cannot be read (by their own mode, or
\* because their directory cannot be searched).
InitDenied ==
    /\ Installed
    /\ denied \in SUBSET Paths
    /\ unreadable \in SUBSET {p \in denied : fs[p].exists}
    /\ unreadable_files \in SUBSET {p \in Paths : fs[p].files # {}}
    /\ denied \cup unreadable_files # {}

\* The call raised exc: main is left with the exception uncaught.
Raise(exc) == pc' = "failed" /\ err' = exc

Goto(label) == pc' = label /\ err' = err

Step(label) == steps' = Append(steps, label)

\* Mutant of LoopLabel: the loop is left after its first iteration.
LoopLabelEarly(i) ==
    IF i > 1 \/ i > Len(ctypesgen_library_options) THEN "cache" ELSE "lookup"

\* Where the for loop goes when its position becomes i.
LoopLabel(i) ==
    IF i > Len(ctypesgen_library_options) THEN "cache" ELSE "lookup"

(* ------------------------------- main ---------------------------------- *)

\* main, lines 96-114: read the configuration and choose between the cached
\* install and the regeneration.
MainStart ==
    /\ pc = "idle"
    /\ run < MaxRuns
    /\ run' = run + 1
    /\ \E flag \in BOOLEAN :
        /\ cache_bindings' = flag
        /\ IF flag /\ fs[cached_bindings_path].exists
           THEN Goto("install_cached")
           ELSE Goto("makedirs")
    /\ steps' = <<"main">>
    /\ fs0' = fs
    /\ UNCHANGED <<fs, conf, perms, idx, other_known_names, symbol_map,
                   generated_libraries, symbols, loaded_manifest, gen_calls,
                   init_writes, prev>>

\* shutil.copytree(src, dst) is refused: src cannot be listed, or dst cannot
\* be made.
CopytreeRefused(src, dst) == src \in unreadable \/ dst \in denied

\* The permissions after shutil.copytree(src, dst): its closing copystat
\* gives dst the mode of src, so dst is as little removable as src when the
\* denial lies in the mode of src itself (and not in that of its parent).
CopystatDenied(src, dst) ==
    IF src \in denied THEN {denied, denied \cup {dst}} ELSE {denied}

\* What a shutil.rmtree that fails on permissions may leave; of a directory
\* that cannot be listed nothing is removed.
RmtreeRefused(path) ==
    IF path \in unreadable THEN {fs} ELSE RmtreeDenied(fs, path)

\* The directories that still hold files the process cannot read when the
\* directories become disk: a directory that was removed or emptied holds
\* none.
StillUnreadable(disk) == {p \in unreadable_files : disk[p] = fs[p]}

\* shutil.copytree(src, dst): the results it can have.  It lists src, makes
\* dst, copies file after file collecting the failures, copies the mode of
\* src to dst and raises shutil.Error when a file could not be copied: dst
\* is then left with the files that could be read.
CopytreeResults(src, dst) ==
    IF CopytreeFails(fs, src, dst) \/ CopytreeRefused(src, dst)
    THEN {[disk |-> fs, denied |-> denied, err |-> "OSError"]}
    ELSE IF src \in unreadable_files /\ fs[src].files # {}
    THEN {[disk |-> [fs EXCEPT ![dst] = [exists |-> TRUE, files |-> part]],
           denied |-> d, err |-> "shutil.Error"] :
              part \in (SUBSET fs[src].files) \ {fs[src].files},
              d \in CopystatDenied(src, dst)}
    ELSE {[disk |-> Copytree(fs, src, dst), denied |-> d, err |-> "none"] :
              d \in CopystatDenied(src, dst)}

\* main, lines 115-117: shutil.copytree(cached_bindings_path, bindings_path).
InstallCached ==
    /\ pc = "install_cached"
    /\ \E copy \in CopytreeResults(cached_bindings_path, bindings_path) :
        /\ fs' = copy.disk
        /\ denied' = copy.denied
        /\ IF copy.err = "none" THEN Goto("done") ELSE Raise(copy.err)
    /\ Step("install_cached")
    /\ UNCHANGED <<conf, unreadable, unreadable_files, run, locals, hist,
                   prev>>

\* cleanup_bindings_dir, lines 67-73.  Without the permission os.makedirs
\* raises OSError, which is caught, and the shutil.rmtree of the except
\* branch raises in its turn (nothing to remove, or not removable).
CleanupMakedirs ==
    /\ pc = "makedirs"
    /\ IF bindings_path \in denied
       THEN /\ fs' \in RmtreeRefused(bindings_path)
            /\ Raise("OSError")
       ELSE /\ fs' = MakeOrRemove(fs, bindings_path)
            /\ Goto("rm_local")
    /\ Step("makedirs")
    /\ unreadable_files' = StillUnreadable(fs')
    /\ UNCHANGED <<conf, denied, unreadable, run, locals, hist, prev>>

\* cleanup_bindings_dir, lines 76-83: any exception is swallowed.
CleanupLocal ==
    /\ pc = "rm_local"
    /\ IF LocalBindingsPath \in denied
       THEN fs' \in RmtreeRefused(LocalBindingsPath)
       ELSE fs' = Rmtree(fs, LocalBindingsPath)
    /\ Goto("rm_cached")
    /\ Step("rm_local")
    /\ unreadable_files' = StillUnreadable(fs')
    /\ UNCHANGED <<conf, denied, unreadable, run, locals, hist, prev>>

\* cleanup_bindings_dir, lines 86-93: any exception is swallowed.
CleanupCached ==
    /\ pc = "rm_cached"
    /\ IF cached_bindings_path \in denied
       THEN fs' \in RmtreeRefused(cached_bindings_path)
       ELSE fs' = Rmtree(fs, cached_bindings_path)
    /\ Goto("load_options")
    /\ Step("rm_cached")
    /\ unreadable_files' = StillUnreadable(fs')
    /\ UNCHANGED <<conf, denied, unreadable, run, locals, hist, prev>>

\* main, lines 121-129: load the options, start with an empty symbol_map
\* and generated_libraries, enter the for loop.
LoadOptions ==
    /\ pc = "load_options"
    /\ symbol_map' = NoSymbols
    /\ generated_libraries' = <<>>
    /\ idx' = 1
    /\ Goto(LoopLabel(1))
    /\ Step("load_options")
    /\ UNCHANGED <<fs, conf, perms, run, cache_bindings, other_known_names,
                   symbols, loaded_manifest, hist, prev>>

\* main, lines 147-149: rebuild other_known_names from symbol_map.
Lookup ==
    /\ pc = "lookup"
    /\ other_known_names' =
           ExtendKnownNames(<<>>, ctypesgen_options.modules, symbol_map)
    /\ IF LookupFails(ctypesgen_options.modules, symbol_map)
       THEN Raise("KeyError")
       ELSE Goto("generate")
    /\ Step("lookup")
    /\ UNCHANGED <<fs, conf, perms, run, cache_bindings, idx, symbol_map,
                   generated_libraries, symbols, loaded_manifest, hist, prev>>

\* main, lines 158-159, and generate_wrapper, lines 43-59.  Parsing or
\* processing may fail before anything is written; printing fails when the
\* output directory is missing, may fail after the output file was opened,
\* leaving a partly written wrapper, and otherwise writes the wrapper file.
GenerateWrapper ==
    /\ pc = "generate"
    /\ gen_calls' = Append(gen_calls, lib_name)
    /\ \E outcome \in {"parse_fails", "print_fails", "printed"} :
        IF outcome = "parse_fails"
        THEN /\ Raise("GeneratorError")
             /\ UNCHANGED <<fs, generated_libraries>>
        ELSE IF ~fs[bindings_path].exists
        THEN /\ Raise("IOError")
             /\ UNCHANGED <<fs, generated_libraries>>
        ELSE IF outcome = "print_fails"
        THEN /\ fs' = [fs EXCEPT ![bindings_path] =
                         WriteFile(@, WrapperFile(lib_name),
                                   PartialSource(lib_name,
                                                 ctypesgen_options.modules,
                                                 other_known_names,
                                                 wrapper_imports))]
             /\ Raise("GeneratorError")
             /\ UNCHANGED generated_libraries
        ELSE /\ fs' = [fs EXCEPT ![bindings_path] =
                         WriteFile(@, WrapperFile(lib_name),
                                   WrapperSource(lib_name,
                                                 ctypesgen_options.modules,
                                                 other_known_names,
                                                 wrapper_imports))]
             /\ generated_libraries' = Append(generated_libraries, lib_name)
             /\ Goto("generate_init")
    /\ Step("generate")
    /\ UNCHANGED <<conf, perms, run, cache_bindings, idx, other_known_names,
                   symbol_map, symbols, loaded_manifest, init_writes, fs0,
                   prev>>

\* main, line 170, and generate_init_file, lines 194-217.  The insert of
\* "BRLCAD_VERSION" is made in the caller's list.
GenerateInitFile ==
    /\ pc = "generate_init"
    /\ generated_libraries' = InsertVersion(generated_libraries)
    /\ IF ~fs[bindings_path].exists
       THEN /\ Raise("IOError")
            /\ UNCHANGED <<fs, init_writes>>
       ELSE /\ fs' = [fs EXCEPT ![bindings_path] =
                        WriteFile(@, InitFile,
                                  InitContents(generated_libraries',
                                               BrlcadVersion))]
            /\ init_writes' =
                   Append(init_writes,
                          InitContents(generated_libraries', BrlcadVersion))
            /\ Goto("load_init")
    /\ Step("generate_init")
    /\ UNCHANGED <<conf, perms, run, cache_bindings, idx, other_known_names,
                   symbol_map, symbols, loaded_manifest, gen_calls, fs0,
                   prev>>

\* imp.load_source(name, path) up to the execution of the module: the
\* results <<source executed, directory afterwards>> it can have.  Byte-code
\* next to the file that was compiled from another source is used when its
\* time stamp is that of the file (the time stamps have a resolution of one
\* second), and is replaced otherwise; byte-code is written when the
\* interpreter writes byte-code.
LoadSource(dir, file, bytecode_file) ==
    LET source   == ReadFile(dir, file)
        compiled == [executed |-> source,
                     dir |-> IF write_bytecode
                             THEN WriteFile(dir, bytecode_file, Bytecode(source))
                             ELSE dir]
    IN  IF HasFile(dir, bytecode_file)
        THEN IF ReadFile(dir, bytecode_file) = Bytecode(source)
             THEN {[executed |-> source, dir |-> dir]}
             ELSE {[executed |-> ReadFile(dir, bytecode_file)[2], dir |-> dir],
                   compiled}
        ELSE {compiled}

\* main, line 175: imp.load_source of the manifest; executing it may raise.
LoadInit ==
    /\ pc = "load_init"
    /\ IF ~HasFile(fs[bindings_path], InitFile)
       THEN /\ Raise("IOError")
            /\ UNCHANGED <<fs, loaded_manifest>>
       ELSE \E load \in LoadSource(fs[bindings_path], InitFile, InitBytecodeFile) :
            /\ fs' = [fs EXCEPT ![bindings_path] = load.dir]
            /\ \E loaded \in BOOLEAN :
                IF loaded
                THEN loaded_manifest' = load.executed /\ Goto("load_lib")
                ELSE loaded_manifest' = loaded_manifest /\ Raise("ImportError")
    /\ Step("load_init")
    /\ UNCHANGED <<conf, perms, run, cache_bindings, idx, other_known_names,
                   symbol_map, generated_libraries, symbols, hist, prev>>

\* main, lines 178-179: imp.load_source of the wrapper and dir() of it.
LoadLib ==
    /\ pc = "load_lib"
    /\ IF ~HasFile(fs[bindings_path], WrapperFile(lib_name))
       THEN /\ Raise("IOError")
            /\ UNCHANGED <<fs, symbols>>
       ELSE \E load \in LoadSource(fs[bindings_path], WrapperFile(lib_name),
                                  WrapperBytecodeFile(lib_name)) :
            /\ fs' = [fs EXCEPT ![bindings_path] = load.dir]
            /\ \E loaded \in BOOLEAN :
                IF loaded
                THEN symbols' = Dir(load.executed) /\ Goto("store")
                ELSE symbols' = symbols /\ Raise("ImportError")
    /\ Step("load_lib")
    /\ UNCHANGED <<conf, perms, run, cache_bindings, idx, other_known_names,
                   symbol_map, generated_libraries, loaded_manifest, hist,
                   prev>>

\* main, line 182, and the step of the for loop to the next library.
Store ==
    /\ pc = "store"
    /\ symbol_map' = StoreSymbols(symbol_map, lib_name, symbols)
    /\ idx' = idx + 1
    /\ Goto(LoopLabel(idx + 1))
    /\ Step("store")
    /\ UNCHANGED <<fs, conf, perms, run, cache_bindings, other_known_names,
                   generated_libraries, symbols, loaded_manifest, hist, prev>>

\* main, lines 190-191: shutil.copytree(bindings_path, cached_bindings_path).
CacheBindings ==
    /\ pc = "cache"
    /\ \E copy \in CopytreeResults(bindings_path, cached_bindings_path) :
        /\ fs' = copy.disk
        /\ denied' = copy.denied
        /\ IF copy.err = "none" THEN Goto("done") ELSE Raise(copy.err)
    /\ Step("cache")
    /\ UNCHANGED <<conf, unreadable, unreadable_files, run, locals, hist,
                   prev>>

\* main returns or raises to the installer; the locals of the call are gone.
Return ==
    /\ pc \in {"done", "failed"}
    /\ prev' = [status |-> pc, err |-> err,
                cache_bindings |-> cache_bindings,
                regenerated |-> Contains(steps, "makedirs"),
                bindings |-> fs[bindings_path],
                init_writes |-> init_writes]
    /\ pc' = "idle"
    /\ err' = "none"
    /\ cache_bindings' = FALSE
    /\ idx' = 0
    /\ other_known_names' = <<>>
    /\ symbol_map' = NoSymbols
    /\ generated_libraries' = <<>>
    /\ symbols' = <<>>
    /\ loaded_manifest' = <<>>
    /\ gen_calls' = <<>>
    /\ init_writes' = <<>>
    /\ fs0' = fs
    /\ steps' = <<>>
    /\ UNCHANGED <<fs, conf, perms, run>>

Next ==
    \/ MainStart
    \/ InstallCached
    \/ CleanupMakedirs
    \/ CleanupLocal
    \/ CleanupCached
    \/ LoadOptions
    \/ Lookup
    \/ GenerateWrapper
    \/ GenerateInitFile
    \/ LoadInit
    \/ LoadLib
    \/ Store
    \/ CacheBindings
    \/ Return

Spec == Init /\ [][Next]_vars

\* No cache directory exists before the first call of main.
InitFresh == Init /\ ~fs[cached_bindings_path].exists

SpecFresh == InitFresh /\ [][Next]_vars

\* The same program run where some directory operation is not permitted.
SpecDenied == InitDenied /\ [][Next]_vars

TypeOK ==
    /\ pc \in {"idle", "install_cached", "makedirs", "rm_local", "rm_cached",
               "load_options", "lookup", "generate", "generate_init",
               "load_init", "load_lib", "store", "cache", "done", "failed"}
    /\ run \in 0..MaxRuns
    /\ idx \in 0..(MaxLibs + 1)
    /\ denied \subseteq Paths
    /\ unreadable \subseteq denied
    /\ unreadable_files \subseteq {p \in Paths : fs[p].files # {}}

(* ------------------------------ claims --------------------------------- *)

\* The configured library names, in configured order.
ConfiguredNames ==
    [i \in 1..Len(ctypesgen_library_options) |->
        ctypesgen_library_options[i].brlcad_lib_name]

Range(s) == {s[i] : i \in 1..Len(s)}

Prefix(s, k) == [i \in 1..k |-> s[i]]

\* The modules the configuration declares for library lib.
ModulesOf(lib) ==
    (CHOOSE o \in Range(ctypesgen_library_options) :
        o.brlcad_lib_name = lib).modules

\* The output directory holds one wrapper per configured library and the
\* manifest, nothing else, and the manifest exports the version marker
\* followed by the configured names.
OutputComplete ==
    /\ fs[bindings_path].exists
    /\ FileNames(fs[bindings_path]) =
           {WrapperFile(l) : l \in Range(ConfiguredNames)} \cup {InitFile}
    /\ Cardinality(fs[bindings_path].files) = Len(ConfiguredNames) + 1
    /\ ExportList(ReadFile(fs[bindings_path], InitFile)) =
           <<"BRLCAD_VERSION">> \o ConfiguredNames

\* The source files of a directory, and the byte-code files loading the
\* generated modules can leave next to them.
SourceFileNames(dir) == {n \in FileNames(dir) : n[2] = ".py"}

BytecodeFileNames ==
    {WrapperBytecodeFile(l) : l \in Range(ConfiguredNames)}
        \cup {InitBytecodeFile}

\* The output directory holds one wrapper per configured library and the
\* manifest, besides them only byte-code of generated modules, and the
\* manifest exports the version marker followed by the configured names.
OutputGenerated ==
    /\ fs[bindings_path].exists
    /\ SourceFileNames(fs[bindings_path]) =
           {WrapperFile(l) : l \in Range(ConfiguredNames)} \cup {InitFile}
    /\ FileNames(fs[bindings_path]) \ SourceFileNames(fs[bindings_path])
           \subseteq BytecodeFileNames
    /\ Cardinality(fs[bindings_path].files) =
           Cardinality(FileNames(fs[bindings_path]))
    /\ \A l \in Range(ConfiguredNames) :
           ReadFile(fs[bindings_path], WrapperFile(l))[1] = "wrapper"
    /\ ExportList(ReadFile(fs[bindings_path], InitFile)) =
           <<"BRLCAD_VERSION">> \o ConfiguredNames

\* C1 as stated: whenever main finishes without error with the cache-reuse
\* flag unset, the output directory is complete, for any list of libraries.
C1_AnyList ==
    (pc = "done" /\ ~cache_bindings) => OutputComplete

\* C1 (amended): whenever main finishes without error with the cache-reuse
\* flag unset and at least one library is configured, the output directory
\* holds exactly one wrapper per configured library plus the manifest and,
\* besides them, nothing but the byte-code files the loads of these modules
\* wrote; the manifest exports "BRLCAD_VERSION" followed by the configured
\* names in configured order.  With an empty library list the output
\* directory of a run that finishes without error is empty and holds no
\* manifest.
C1_OutputComplete ==
    (pc = "done" /\ ~cache_bindings) =>
        IF Len(ctypesgen_library_options) > 0
        THEN OutputGenerated
        ELSE fs[bindings_path] = EmptyDir

C1_Witness ==
    /\ pc = "done"
    /\ ~cache_bindings
    /\ Len(ctypesgen_library_options) >= 2
    /\ \E i \in 1..Len(ctypesgen_library_options) :
           ctypesgen_library_options[i].modules # <<>>
    /\ OutputGenerated
    /\ HasFile(fs[bindings_path], InitBytecodeFile)
    /\ HasFile(fs[bindings_path], WrapperBytecodeFile(ConfiguredNames[2]))

\* C2: generate_wrapper is called for a library only when every module it
\* declares has an entry in symbol_map, written by an earlier pass of this
\* run; a lookup that fails ends the run with KeyError before the generator
\* is called for that library, and no later library is processed.
C2_DependenciesFirst ==
    /\ \A i \in 1..Len(gen_calls) :
           \A m \in Range(ModulesOf(gen_calls[i])) :
               /\ m \in DOMAIN symbol_map
               /\ m \in Range(Prefix(gen_calls, i - 1))
    /\ (pc \in {"generate", "generate_init", "load_init", "load_lib", "store"})
           => Range(ctypesgen_options.modules) \subseteq DOMAIN symbol_map
    /\ (pc = "failed" /\ err = "KeyError") =>
           /\ ~(Range(ctypesgen_options.modules) \subseteq DOMAIN symbol_map)
           /\ gen_calls = Prefix(ConfiguredNames, idx - 1)

C2_Witness ==
    /\ pc = "failed"
    /\ err = "KeyError"
    /\ idx >= 2
    /\ Len(gen_calls) = idx - 1
    /\ lib_name \notin Range(gen_calls)

Last(s) == s[Len(s)]

\* The call of main has ended, by return or by an uncaught exception.
Ended == pc \in {"done", "failed"}

\* The previous call regenerated the bindings with the cache-reuse flag
\* unset and returned without error.
PrevGenerated ==
    prev.status = "done" /\ prev.regenerated /\ ~prev.cache_bindings

\* C3 as stated: after a successful generating run, a run with the
\* cache-reuse flag set for the same install target completes without error,
\* never calls the generator and leaves the output directory as the
\* generating run left it.  (Stated for a configuration with at least one
\* library.)
C3_CacheRoundTrip ==
    (/\ Ended
     /\ cache_bindings
     /\ PrevGenerated
     /\ Len(ctypesgen_library_options) > 0) =>
        /\ pc = "done"
        /\ gen_calls = <<>>
        /\ fs[bindings_path] = prev.bindings

\* The generator has failed for the second of three libraries in a run
\* with the cache-reuse flag unset.
SecondOfThreeFailed ==
    /\ pc = "failed"
    /\ ~cache_bindings
    /\ Len(ctypesgen_library_options) = 3
    /\ idx = 2
    /\ Last(steps) = "generate"

\* C4 as stated: in a run over three libraries with the cache-reuse flag
\* unset, when the generator fails for the second one the run has failed,
\* the generator was not called for the third, the output directory holds
\* only the first library's wrapper and a manifest exporting only it,
\* symbol_map has an entry for the first library only, and the cache
\* directory is not written.
C4_PartialFailure ==
    SecondOfThreeFailed =>
        /\ gen_calls = Prefix(ConfiguredNames, 2)
        /\ FileNames(fs[bindings_path]) =
               {WrapperFile(ConfiguredNames[1]), InitFile}
        /\ Cardinality(fs[bindings_path].files) = 2
        /\ ExportList(ReadFile(fs[bindings_path], InitFile)) =
               <<"BRLCAD_VERSION", ConfiguredNames[1]>>
        /\ DOMAIN symbol_map = {ConfiguredNames[1]}
        /\ ~fs[cached_bindings_path].exists

\* C4 (amended): in that case the run has failed, the generator was not
\* called for the third library, the output directory holds the first
\* library's complete wrapper and a manifest exporting only it, and besides
\* these at most their byte-code files and a partly written wrapper of the
\* second library; no file of the third library is there, symbol_map has an
\* entry for the first library only, and the cache directory is not
\* written.
C4_PartialFailureLeftovers ==
    SecondOfThreeFailed =>
        LET out == fs[bindings_path]
            l1  == ConfiguredNames[1]
            l2  == ConfiguredNames[2]
        IN  /\ gen_calls = Prefix(ConfiguredNames, 2)
            /\ {WrapperFile(l1), InitFile} \subseteq FileNames(out)
            /\ FileNames(out) \subseteq
                   {WrapperFile(l1), InitFile, WrapperBytecodeFile(l1),
                    InitBytecodeFile, WrapperFile(l2)}
            /\ Cardinality(out.files) = Cardinality(FileNames(out))
            /\ ReadFile(out, WrapperFile(l1)) =
                   WrapperSource(l1, <<>>, <<>>, wrapper_imports)
            /\ HasFile(out, WrapperFile(l2)) =>
                   ReadFile(out, WrapperFile(l2))[1] = "partial"
            /\ ExportList(ReadFile(out, InitFile)) = <<"BRLCAD_VERSION", l1>>
            /\ DOMAIN symbol_map = {l1}
            /\ ~fs[cached_bindings_path].exists

C4_Witness ==
    /\ SecondOfThreeFailed
    /\ err = "GeneratorError"
    /\ fs0[cached_bindings_path].exists
    /\ HasFile(fs[bindings_path], WrapperFile(ConfiguredNames[2]))
    /\ HasFile(fs[bindings_path], WrapperBytecodeFile(ConfiguredNames[1]))
    /\ Cardinality(fs[bindings_path].files) = 5

\* C5 as stated: two runs in a row with the cache-reuse flag unset and the
\* same configuration both complete and write a manifest, and the second
\* manifest equals the first.  (Stated for a first run that completed with
\* at least one library configured, and a second run in which the generator
\* and the loads of the generated modules do not fail.)
C5_Idempotent ==
    (/\ Ended
     /\ ~cache_bindings
     /\ PrevGenerated
     /\ Len(ctypesgen_library_options) > 0
     /\ err \notin {"GeneratorError", "ImportError"}) =>
        /\ pc = "done"
        /\ init_writes # <<>>
        /\ prev.init_writes # <<>>
        /\ Last(init_writes) = Last(prev.init_writes)

\* C6 as stated: a call that starts with the cache-reuse flag set and the
\* cache directory present cleans nothing, generates nothing, writes no
\* manifest and no symbol_map entry, leaves the cache as it was, copies it
\* into the output directory and returns; any other call runs the cleanup
\* and enters the generation loop.
C6_CacheDecision ==
    Ended =>
        IF cache_bindings /\ fs0[cached_bindings_path].exists
        THEN /\ pc = "done"
             /\ ~Contains(steps, "makedirs")
             /\ gen_calls = <<>>
             /\ init_writes = <<>>
             /\ symbol_map = NoSymbols
             /\ fs[cached_bindings_path] = fs0[cached_bindings_path]
             /\ fs[bindings_path] = fs0[cached_bindings_path]
        ELSE /\ Contains(steps, "makedirs")
             /\ Contains(steps, "rm_cached")
             /\ Contains(steps, "load_options")

\* C7 as stated: when cleanup_bindings_dir has returned, the output
\* directory exists and is empty, whether or not it existed before the run.
\* (Stated for an output directory that is not the cache directory.)
C7_CleanOutputDir ==
    (pc = "load_options" /\ bindings_path # cached_bindings_path) =>
        fs[bindings_path] = EmptyDir

\* Number of generator passes that have succeeded so far in this call.
GenSucceeded ==
    IF pc = "failed" /\ Last(steps) = "generate"
    THEN Len(gen_calls) - 1
    ELSE Len(gen_calls)

\* C8: every manifest written in a run exports "BRLCAD_VERSION" first and
\* once, followed by the libraries generated so far in generation order;
\* the manifest is written once after each successful generation, the k-th
\* write listing the first k libraries, and the file on disk is the last
\* one written.
C8_ManifestWrites ==
    /\ \A k \in 1..Len(init_writes) :
           /\ ExportList(init_writes[k]) =
                  <<"BRLCAD_VERSION">> \o Prefix(gen_calls, k)
           /\ Cardinality({i \in 1..(k + 1) :
                  ExportList(init_writes[k])[i] = "BRLCAD_VERSION"}) = 1
    /\ Len(init_writes) =
           GenSucceeded - (IF pc = "generate_init" THEN 1 ELSE 0)
    /\ init_writes # <<>> =>
           ReadFile(fs[bindings_path], InitFile) = Last(init_writes)

C8_Witness ==
    /\ Len(init_writes) = 3
    /\ GenSucceeded = 3
    /\ ExportList(ReadFile(fs[bindings_path], InitFile)) =
           <<"BRLCAD_VERSION">> \o Prefix(ConfiguredNames, 3)

\* A step puts files into the cache directory.
CacheWritten ==
    /\ fs'[cached_bindings_path].files # fs[cached_bindings_path].files
    /\ fs'[cached_bindings_path].files # {}

\* dir holds the final manifest.
FinalManifest(dir) ==
    /\ HasFile(dir, InitFile)
    /\ ReadFile(dir, InitFile) =
           InitContents(<<"BRLCAD_VERSION">> \o ConfiguredNames, BrlcadVersion)

\* C9 as stated: files are written into the cache directory only by the
\* copy that follows the completed generation loop (every configured
\* library has its symbol_map entry), and when a regenerating run returns
\* without error the cache directory exists, equals the output directory
\* and holds all wrapper files plus the final manifest.
C9_CacheHoldsManifest ==
    [][/\ CacheWritten =>
            /\ pc = "cache"
            /\ idx = Len(ctypesgen_library_options) + 1
            /\ DOMAIN symbol_map = Range(ConfiguredNames)
       /\ (pc = "cache" /\ pc' = "done") =>
            /\ fs'[cached_bindings_path].exists
            /\ fs'[cached_bindings_path] = fs'[bindings_path]
            /\ SourceFileNames(fs'[cached_bindings_path]) =
                   {WrapperFile(l) : l \in Range(ConfiguredNames)}
                       \cup {InitFile}
            /\ FinalManifest(fs'[cached_bindings_path])]_vars

\* C9 (amended): files are written into the cache directory only by the
\* copy that follows the completed generation loop (every configured
\* library has its symbol_map entry), and when a regenerating run returns
\* without error the cache directory exists and equals the output
\* directory: with at least one library configured its source files are all
\* wrapper files plus the final manifest, and with an empty library list
\* it is an empty directory without a manifest.
C9_CacheAfterLoop ==
    [][/\ CacheWritten =>
            /\ pc = "cache"
            /\ idx = Len(ctypesgen_library_options) + 1
            /\ DOMAIN symbol_map = Range(ConfiguredNames)
       /\ (pc = "cache" /\ pc' = "done") =>
            /\ fs'[cached_bindings_path].exists
            /\ fs'[cached_bindings_path] = fs'[bindings_path]
            /\ IF ConfiguredNames = <<>>
               THEN fs'[cached_bindings_path] = EmptyDir
               ELSE /\ SourceFileNames(fs'[cached_bindings_path]) =
                           {WrapperFile(l) : l \in Range(ConfiguredNames)}
                               \cup {InitFile}
                    /\ FinalManifest(fs'[cached_bindings_path])]_vars

C9_Witness ==
    /\ pc = "done"
    /\ Contains(steps, "cache")
    /\ Len(ctypesgen_library_options) >= 2
    /\ fs[cached_bindings_path].exists
    /\ fs[cached_bindings_path] = fs[bindings_path]
    /\ HasFile(fs[cached_bindings_path], InitBytecodeFile)

\* The previous call regenerated, failed inside the loop and left files in
\* the output directory.
PrevFailedPartial ==
    /\ prev.status = "failed"
    /\ prev.regenerated
    /\ prev.bindings.files # {}

\* C10: after a regenerating run that failed inside the loop and left a
\* partly filled output directory, the next run, whatever its cache-reuse
\* flag, goes through the cleanup, and at its first generator call no file
\* of the failed run is in the output directory.
C10_Recovery ==
    PrevFailedPartial =>
        /\ pc # "install_cached"
        /\ (pc = "generate" /\ gen_calls = <<>>) =>
               /\ Contains(steps, "makedirs")
               /\ fs[bindings_path].files = {}

C10_Witness ==
    /\ PrevFailedPartial
    /\ pc = "generate"
    /\ gen_calls = <<>>
    /\ cache_bindings

\* The statements of one loop iteration, in program order.
Iteration ==
    <<"lookup", "generate", "generate_init", "load_init", "load_lib", "store">>

InLoop == pc \in Range(Iteration)

\* The concatenation of a sequence of sequences, built from its end.
RECURSIVE ConcatAll(_)
ConcatAll(seqs) ==
    IF seqs = <<>> THEN <<>>
    ELSE ConcatAll(Prefix(seqs, Len(seqs) - 1)) \o Last(seqs)

\* C11: once the lookup of a library has succeeded, other_known_names is
\* the concatenation, in the order of the library's declared modules, of
\* the symbol lists stored for those modules; each is the full list
\* harvested from that module, no name comes from a module the library does
\* not declare (when wrappers do not import, every name is a module
\* attribute or owned by a declared module), and the generator receives
\* exactly this list.
C11_KnownNames ==
    (InLoop /\ pc # "lookup") =>
        LET modules == ctypesgen_options.modules
        IN  /\ other_known_names =
                   ConcatAll([j \in 1..Len(modules) |-> symbol_map[modules[j]]])
            /\ \A j \in 1..Len(modules) :
                   /\ symbol_map[modules[j]] =
                          Dir(ReadFile(fs[bindings_path],
                                       WrapperFile(modules[j])))
                   /\ Range(symbol_map[modules[j]])
                          \subseteq Range(other_known_names)
            /\ ~wrapper_imports =>
                   \A n \in Range(other_known_names) :
                       n[1] \in Range(modules) \cup {""}
            /\ (pc # "generate" /\ pc # "failed") =>
                   ReadFile(fs[bindings_path], WrapperFile(lib_name)) =
                       WrapperSource(lib_name, modules, other_known_names,
                                     wrapper_imports)

C11_Witness ==
    /\ pc = "generate_init"
    /\ idx = 3
    /\ wrapper_imports
    /\ ctypesgen_options.modules = <<ConfiguredNames[2], ConfiguredNames[1]>>
    /\ Len(ctypesgen_library_options[2].modules) = 1
    /\ Len(other_known_names) = 16
    /\ other_known_names[6] = <<ConfiguredNames[1], "T">>
    /\ other_known_names[15] = <<ConfiguredNames[1], "T">>

\* The position in steps of the statement that entered the loop.
LoopStart == CHOOSE k \in 1..Len(steps) : steps[k] = "load_options"

\* C12 as stated: the statements of the loop run in the order lookup,
\* generator, manifest write, manifest load, wrapper load, store, iteration
\* after iteration; the manifest loaded in an iteration lists the current
\* library and all earlier ones; a lookup starts only when every earlier
\* library has its symbols stored.
C12_IterationOrder ==
    /\ Contains(steps, "load_options") =>
           \A k \in (LoopStart + 1)..Len(steps) :
               \/ steps[k] =
                      Iteration[((k - LoopStart - 1) % Len(Iteration)) + 1]
               \/ /\ steps[k] = "cache"
                  /\ k = Len(steps)
                  /\ (k - LoopStart - 1) % Len(Iteration) = 0
    /\ pc \in {"load_init", "load_lib", "store"} =>
           ExportList(ReadFile(fs[bindings_path], InitFile)) =
               <<"BRLCAD_VERSION">> \o Prefix(ConfiguredNames, idx)
    /\ pc \in {"load_lib", "store"} =>
           ExportList(loaded_manifest) =
               <<"BRLCAD_VERSION">> \o Prefix(ConfiguredNames, idx)
    /\ pc = "lookup" =>
           DOMAIN symbol_map = Range(Prefix(ConfiguredNames, idx - 1))

\* C13 as stated: during the loop generated_libraries holds exactly the
\* libraries whose generator pass has succeeded in this run, in generation
\* order, and nothing else.
C13_GeneratedLibraries ==
    Contains(steps, "load_options")
        => generated_libraries = Prefix(gen_calls, GenSucceeded)

\* C14: within a run every step keeps the symbol_map entries there are;
\* only the store at the end of a library's pass adds one, for that library
\* and with the harvested names; the keys are the libraries whose passes
\* have completed.
C14_WriteOnce ==
    [][pc \notin {"done", "failed"} =>
         /\ \A m \in DOMAIN symbol_map :
                m \in DOMAIN symbol_map' /\ symbol_map'[m] = symbol_map[m]
         /\ symbol_map' # symbol_map =>
                /\ pc = "store"
                /\ lib_name \notin DOMAIN symbol_map
                /\ DOMAIN symbol_map' = DOMAIN symbol_map \cup {lib_name}
                /\ symbol_map'[lib_name] = symbols
                /\ symbols = Dir(ReadFile(fs[bindings_path],
                                          WrapperFile(lib_name)))
         /\ DOMAIN symbol_map' =
                Range(Prefix(ConfiguredNames,
                             Cardinality({k \in 1..Len(steps') :
                                            steps'[k] = "store"})))
       ]_vars

C14_Witness ==
    /\ pc = "done"
    /\ Cardinality(DOMAIN symbol_map) = 3
    /\ \A m \in DOMAIN symbol_map :
           /\ symbol_map[m] = Dir(ReadFile(fs[bindings_path], WrapperFile(m)))
           /\ Len(symbol_map[m]) >= Len(ModuleAttributes) + Len(OwnNames(m))

\* The directory operations of cleanup_bindings_dir the claim names: the
\* statement and the directory it works on.
CleanupOps ==
    {<<"makedirs", bindings_path>>,
     <<"rm_cached", cached_bindings_path>>}

\* The operation was executed in this call and failed for lack of
\* permission: making the output directory, or removing a directory that
\* is there.
FailedOnPermission(op) ==
    /\ Contains(steps, op[1])
    /\ op[2] \in denied
    /\ (op[1] = "makedirs" \/ fs0[op[2]].exists)

\* C15 as stated: a directory operation of the cleanup that fails for a
\* reason other than the directory being absent ends the run in failure at
\* that statement, before the generator is called for any library.
C15_CleanupFailuresFatal ==
    \A op \in CleanupOps :
        FailedOnPermission(op) =>
            /\ pc = "failed"
            /\ Last(steps) = op[1]
            /\ gen_calls = <<>>

\* The position of a configured library in the configuration.
IndexOf(lib) ==
    CHOOSE i \in 1..Len(ConfiguredNames) : ConfiguredNames[i] = lib

\* The wrapper a fully successful run generates for the i-th library: its
\* known names are what dir() gives for the wrappers of its modules, which
\* are earlier libraries.
RECURSIVE FullWrapper(_)
FullWrapper(i) ==
    LET o == ctypesgen_library_options[i]
    IN  WrapperSource(o.brlcad_lib_name, o.modules,
                      ConcatAll([j \in 1..Len(o.modules) |->
                                    IF IndexOf(o.modules[j]) < i
                                    THEN Dir(FullWrapper(IndexOf(o.modules[j])))
                                    ELSE <<>>]),
                      wrapper_imports)

\* dir holds one wrapper per configured library, as a fully successful run
\* generates them, and no other source file but the manifest; what else
\* it holds is byte-code of these modules.
AllWrappers(dir) ==
    /\ dir.exists
    /\ SourceFileNames(dir) \ {InitFile} =
           {WrapperFile(l) : l \in Range(ConfiguredNames)}
    /\ FileNames(dir) \ SourceFileNames(dir) \subseteq BytecodeFileNames
    /\ Cardinality(dir.files) = Cardinality(FileNames(dir))
    /\ \A i \in 1..Len(ctypesgen_library_options) :
           ReadFile(dir, WrapperFile(ConfiguredNames[i])) = FullWrapper(i)

\* The previous call regenerated and failed.
PrevFailedRegenerating == prev.status = "failed" /\ prev.regenerated

\* C16 as stated: starting without a cache directory, with the cache path
\* distinct from the output path, between runs the cache directory is
\* absent or holds one wrapper per configured library plus the final
\* manifest, and it is absent after a regenerating run that failed.
C16_CacheAbsentOrComplete ==
    (pc = "idle" /\ bindings_path # cached_bindings_path) =>
        /\ \/ ~fs[cached_bindings_path].exists
           \/ /\ AllWrappers(fs[cached_bindings_path])
              /\ FinalManifest(fs[cached_bindings_path])
        /\ PrevFailedRegenerating => ~fs[cached_bindings_path].exists

\* C16 (amended): the same, where the complete copy holds the final manifest
\* when at least one library is configured and is an empty directory when
\* none is.
C16_CacheAbsentOrGenerated ==
    (pc = "idle" /\ bindings_path # cached_bindings_path) =>
        /\ \/ ~fs[cached_bindings_path].exists
           \/ /\ AllWrappers(fs[cached_bindings_path])
              /\ IF ConfiguredNames = <<>>
                 THEN fs[cached_bindings_path] = EmptyDir
                 ELSE FinalManifest(fs[cached_bindings_path])
        /\ PrevFailedRegenerating => ~fs[cached_bindings_path].exists

C16_Witness ==
    /\ pc = "idle"
    /\ bindings_path # cached_bindings_path
    /\ run >= 2
    /\ Len(ctypesgen_library_options) >= 2
    /\ prev.status = "failed"
    /\ prev.cache_bindings
    /\ AllWrappers(fs[cached_bindings_path])
    /\ FinalManifest(fs[cached_bindings_path])
    /\ wrapper_imports
    /\ \E i \in 1..Len(ctypesgen_library_options) :
           ctypesgen_library_options[i].modules # <<>>

====
